---------------------------- MODULE Spec2Model ----------------------------
(***************************************************************************)
(* A model of package root (src/root.go, src/unnamed/part_001): Find,      *)
(* getBoundVals, getBoundsFinite, getBoundsInfinite, infSearch, bisection. *)
(*                                                                         *)
(* float64 is modelled in fixed point: a finite number x is the integer    *)
(* x * Scale, with Scale = 2^noRootIter, so that every midpoint bisection  *)
(* computes from whole-number brackets is exact.  -Inf, +Inf and NaN are   *)
(* three reserved codes outside the range of every finite number the model *)
(* computes; every comparison goes through Lt/Gt/Ge, which are false on    *)
(* NaN as in Go.                                                           *)
(*                                                                         *)
(* One call of Find is one behaviour.  Each action is one step of the call *)
(* that invokes f at most once, so that the invocations of f, the          *)
(* evaluation counter and the goroutines can be observed between steps.    *)
(***************************************************************************)
EXTENDS Integers, FiniteSets, Sequences, TLC

VARIABLES
    min, max, tol, settings,   \* the arguments of Find
    fn, nanLoc,                \* the argument f: its shape, and where it is NaN
    pc,                        \* position in the call
    minBound, maxBound,        \* the two bounds held
    nFunEvals,                 \* the evaluation counter
    err, ret,                  \* what Find returns
    minInf, maxInf,            \* locals of getBoundsInfinite
    minVal, maxVal,            \* locals (named results) of getBoundsFinite
    zero, one,                 \* locals of getBoundsInfinite: f(0), f(1)
    wg, gor,                   \* the WaitGroup counter, the goroutines
    start, newStart, step, dir,\* locals of infSearch
    i,                         \* loop counter of infSearch / bisection
    calls, nanSeen, callsAfterNaN  \* history: invocations of f

vars == <<min, max, tol, settings, fn, nanLoc, pc, minBound, maxBound,
          nFunEvals, err, ret, minInf, maxInf, minVal, maxVal, zero, one,
          wg, gor, start, newStart, step, dir, i, calls, nanSeen,
          callsAfterNaN>>

(***************************************************************************)
(* Bounds of the model.                                                    *)
(***************************************************************************)
\* The iteration cap shared by infSearch and bisection.  The source sets it
\* to 100; the model scales it down, because the doubling step reaches
\* 2^noRootIter and the bisection depth 2^-noRootIter.
noRootIter == 4

RECURSIVE Pow2(_)
Pow2(n) == IF n = 0 THEN 1 ELSE 2 * Pow2(n - 1)

\* Fixed-point scale: the integer Scale is the number 1.0.
Scale == Pow2(noRootIter)

\* The whole number n as a fixed-point number.
W(n) == n * Scale

(***************************************************************************)
(* float64: the reserved codes and the operations the source uses.         *)
(***************************************************************************)
PosInf == Scale * 65536
NegInf == 0 - PosInf
NaN    == PosInf + 1

IsNaN(x) == x = NaN

\* math.IsInf(x, sign)
IsInf(x, sign) == IF sign > 0 THEN x = PosInf ELSE x = NegInf

\* Go's <, >, >= on float64: false when either side is NaN.
Lt(a, b) == a # NaN /\ b # NaN /\ a < b
Gt(a, b) == a # NaN /\ b # NaN /\ a > b
Ge(a, b) == a # NaN /\ b # NaN /\ a >= b

\* math.Abs
Abs(x) == IF x = NaN THEN NaN ELSE IF x < 0 THEN 0 - x ELSE x

\* math.Min
MathMin(a, b) == IF a = NaN \/ b = NaN THEN NaN ELSE IF a < b THEN a ELSE b

(***************************************************************************)
(* type bound, and its zero value.                                         *)
(***************************************************************************)
Bound(l, v) == [loc |-> l, value |-> v]
ZeroBound == Bound(0, 0)

(***************************************************************************)
(* The function f handed to Find.  It is deterministic: fixed by fn and    *)
(* nanLoc for the whole call.                                              *)
(*   lin:   f(x) = slope * (x - root)     strictly monotonic, root at root *)
(*   const: f(x) = slope                  never changes sign               *)
(*   step:  f(x) = -slope below root, +slope from root on: changes sign    *)
(*          and never meets a tolerance below |slope|                      *)
(* and f(nanLoc) = NaN.                                                    *)
(***************************************************************************)
F(x) ==
    IF x = nanLoc THEN NaN
    ELSE CASE fn.kind = "lin"   -> fn.slope * (x - fn.root)
           [] fn.kind = "const" -> W(fn.slope)
           [] fn.kind = "step"  -> IF x < fn.root THEN 0 - W(fn.slope)
                                   ELSE W(fn.slope)

\* The step function's jump: between the last two probes of a doubling
\* search that starts at the anchor 1.
StepAt == W(Pow2(noRootIter - 2) + 2)

Roots == {W(0 - 2), W(0), W(1), W(2), W(5)}

Funs ==
    [kind : {"lin"}, slope : {0 - 1, 1, 2}, root : Roots]
    \cup [kind : {"const"}, slope : {1}, root : {0}]
    \cup [kind : {"step"}, slope : {1}, root : {W(2), StepAt}]

\* nanLoc when f is NaN nowhere: a code no location takes.
NoNaN == NegInf - 1
NanLocs == {NoNaN, W(0 - 1), W(0), W(2), W(3)}

MinSet == {NegInf, W(0 - 1), W(3)}
MaxSet == {W(3), PosInf}
TolSet == {1, Scale}
MaxEvalsSet == {0, 1, 3}

\* settings == nil
NilSettings ==
    [isNil |-> TRUE, UseMinValue |-> FALSE, MinValue |-> 0,
     UseMaxValue |-> FALSE, MaxValue |-> 0, MaxEvals |-> 0,
     Concurrent |-> FALSE]


\* The domains: the four shapes, and two with min >= max.
Domains == (MinSet \X MaxSet) \cup {<<W(3), W(0 - 1)>>}

\* A known value is the value of f there (a truthful caller); a field the
\* caller does not set is Go's zero value.
SettingsFor(mn, mx) ==
    {NilSettings} \cup
    {[isNil |-> FALSE,
      UseMinValue |-> um,
      MinValue |-> IF um /\ mn # NegInf THEN F(mn) ELSE 0,
      UseMaxValue |-> ux,
      MaxValue |-> IF ux /\ mx # PosInf THEN F(mx) ELSE 0,
      MaxEvals |-> me,
      Concurrent |-> c] :
        um \in BOOLEAN, ux \in BOOLEAN, me \in MaxEvalsSet, c \in BOOLEAN}

Goroutines == {"min", "max", "zero", "one"}

Init ==
    /\ fn \in Funs
    /\ nanLoc \in NanLocs
    /\ \E d \in Domains : min = d[1] /\ max = d[2]
    /\ tol \in TolSet
    /\ settings \in SettingsFor(min, max)
    /\ pc = "Find"
    /\ minBound = ZeroBound
    /\ maxBound = ZeroBound
    /\ nFunEvals = 0
    /\ err = "nil"
    /\ ret = 0
    /\ minInf = FALSE
    /\ maxInf = FALSE
    /\ minVal = 0
    /\ maxVal = 0
    /\ zero = 0
    /\ one = 0
    /\ wg = 0
    /\ gor = [g \in Goroutines |-> "idle"]
    /\ start = ZeroBound
    /\ newStart = ZeroBound
    /\ step = 0
    /\ dir = 0
    /\ i = 0
    /\ calls = 0
    /\ nanSeen = FALSE
    /\ callsAfterNaN = 0

(***************************************************************************)
(* Shorthands for the settings tests the source repeats.                   *)
(***************************************************************************)
UseMin == ~settings.isNil /\ settings.UseMinValue
UseMax == ~settings.isNil /\ settings.UseMaxValue
Concurrent == ~settings.isNil /\ settings.Concurrent
\* var maxEvals int; if settings != nil { maxEvals = settings.MaxEvals }
maxEvals == IF settings.isNil THEN 0 ELSE settings.MaxEvals

\* One invocation of f at x, recorded in the history variables.
Invoke(x) ==
    /\ calls' = calls + 1
    /\ nanSeen' = (nanSeen \/ IsNaN(F(x)))
    /\ callsAfterNaN' = callsAfterNaN + (IF nanSeen THEN 1 ELSE 0)

NoInvoke == UNCHANGED <<calls, nanSeen, callsAfterNaN>>

inputs == <<min, max, tol, settings, fn, nanLoc>>
searchVars == <<start, newStart, step, dir, i>>
finiteVars == <<minVal, maxVal>>
anchorVars == <<zero, one>>
goVars == <<wg, gor>>

\* A sign test that forgets the negative case.
sameSignPositiveOnly(a, b) == Gt(a, 0) /\ Gt(b, 0)

sameSign(a, b) == (Gt(a, 0) /\ Gt(b, 0)) \/ (Lt(a, 0) /\ Lt(b, 0))

\* minBoundValue: math.Min of the two magnitudes.
minBoundValue(a, b) == MathMin(Abs(a.value), Abs(b.value))

\* A join that does not wait for the goroutines.
WgWaitNoJoin(n) == TRUE

\* wg.Wait() returns
WgWait(n) == n = 0

\* for i := 0; i < noRootIter; i++
infSearchLoop(n) == n < noRootIter
\* A loop bound off by one.
bisectionLoopOffByOne(n) == n <= noRootIter
bisectionLoop(n) == n < noRootIter

\* Find returns (x, e).
Return(x, e) == pc' = "done" /\ ret' = x /\ err' = e

(***************************************************************************)
(* getBoundVals, up to the call of getBoundsInfinite or getBoundsFinite.   *)
(***************************************************************************)
\* getBoundVals returns (zero bounds, 0, e) from its known-value checks.
KnownReturn(e) ==
    /\ pc' = "FindCheck"
    /\ err' = e
    /\ UNCHANGED <<minBound, maxBound, nFunEvals, minInf, maxInf>>

getBoundVals ==
    /\ pc = "Find"
    /\ IF Ge(min, max)
       THEN /\ pc' = "panic"
            /\ UNCHANGED <<minBound, maxBound, nFunEvals, err, minInf, maxInf>>
       ELSE LET mI == IsInf(min, 0 - 1)
                xI == IsInf(max, 1)
            IN  IF UseMin /\ mI THEN KnownReturn("ErrKnownMinInf")
                ELSE IF UseMin /\ Lt(Abs(settings.MaxValue), tol)
                     THEN KnownReturn("nil")
                ELSE IF UseMax /\ xI THEN KnownReturn("ErrKnownMaxInf")
                ELSE IF UseMax /\ Lt(Abs(settings.MaxValue), tol)
                     THEN KnownReturn("nil")
                ELSE /\ pc' = IF mI \/ xI THEN "infMin" ELSE "finMin"
                     /\ minInf' = mI
                     /\ maxInf' = xI
                     /\ UNCHANGED <<minBound, maxBound, nFunEvals, err>>
    /\ NoInvoke
    /\ UNCHANGED <<inputs, ret, finiteVars, anchorVars, goVars, searchVars>>

(***************************************************************************)
(* getBoundsFinite.                                                        *)
(***************************************************************************)
\* go func() { defer wg.Done(); ... = f(...) }()
Spawn(g) == wg' = wg + 1 /\ gor' = [gor EXCEPT ![g] = "running"]

FiniteMin ==
    /\ pc = "finMin"
    /\ pc' = "finMax"
    /\ IF UseMin
       THEN /\ minVal' = settings.MinValue
            /\ NoInvoke
            /\ UNCHANGED <<nFunEvals, goVars>>
       ELSE /\ nFunEvals' = nFunEvals + 1
            /\ IF Concurrent
               THEN Spawn("min") /\ NoInvoke /\ UNCHANGED minVal
               ELSE minVal' = F(min) /\ Invoke(min) /\ UNCHANGED goVars
    /\ UNCHANGED <<inputs, minBound, maxBound, err, ret, minInf, maxInf,
                   maxVal, anchorVars, searchVars>>

FiniteMax ==
    /\ pc = "finMax"
    /\ pc' = "finWait"
    /\ IF UseMax
       THEN /\ maxVal' = settings.MaxValue
            /\ NoInvoke
            /\ UNCHANGED <<nFunEvals, goVars>>
       ELSE /\ nFunEvals' = nFunEvals + 1
            /\ IF Concurrent
               THEN Spawn("max") /\ NoInvoke /\ UNCHANGED maxVal
               ELSE maxVal' = F(max) /\ Invoke(max) /\ UNCHANGED goVars
    /\ UNCHANGED <<inputs, minBound, maxBound, err, ret, minInf, maxInf,
                   minVal, anchorVars, searchVars>>

\* wg.Wait(), the return of getBoundsFinite and the bounds getBoundVals
\* builds from it.
FiniteReturn ==
    /\ pc = "finWait"
    /\ Concurrent => WgWait(wg)
    /\ pc' = "FindCheck"
    /\ minBound' = Bound(min, minVal)
    /\ maxBound' = Bound(max, maxVal)
    /\ NoInvoke
    /\ UNCHANGED <<inputs, nFunEvals, err, ret, minInf, maxInf, finiteVars,
                   anchorVars, goVars, searchVars>>

\* The body of a goroutine: one evaluation of f, then wg.Done().
GoEval(g) ==
    /\ gor[g] = "running"
    /\ gor' = [gor EXCEPT ![g] = "done"]
    /\ wg' = wg - 1
    /\ CASE g = "min"  -> minVal' = F(min) /\ Invoke(min)
                          /\ UNCHANGED <<maxVal, zero, one>>
         [] g = "max"  -> maxVal' = F(max) /\ Invoke(max)
                          /\ UNCHANGED <<minVal, zero, one>>
         [] g = "zero" -> zero' = F(W(0)) /\ Invoke(W(0))
                          /\ UNCHANGED <<minVal, maxVal, one>>
         [] g = "one"  -> one' = F(W(1)) /\ Invoke(W(1))
                          /\ UNCHANGED <<minVal, maxVal, zero>>
    /\ UNCHANGED <<inputs, pc, minBound, maxBound, nFunEvals, err, ret,
                   minInf, maxInf, searchVars>>

(***************************************************************************)
(* getBoundsInfinite.                                                      *)
(***************************************************************************)
\* if !minInf { minBound = bound{loc: min}; minBound.value = ... }
\* The evaluation of f here does not touch nFunEvals.
InfMin ==
    /\ pc = "infMin"
    /\ pc' = "infMax"
    /\ IF minInf
       THEN NoInvoke /\ UNCHANGED minBound
       ELSE IF UseMin
            THEN minBound' = Bound(min, settings.MinValue) /\ NoInvoke
            ELSE minBound' = Bound(min, F(min)) /\ Invoke(min)
    /\ UNCHANGED <<inputs, maxBound, nFunEvals, err, ret, minInf, maxInf,
                   finiteVars, anchorVars, goVars, searchVars>>

InfMax ==
    /\ pc = "infMax"
    /\ pc' = "infAnchors"
    /\ IF maxInf
       THEN NoInvoke /\ UNCHANGED maxBound
       ELSE IF UseMax
            THEN maxBound' = Bound(max, settings.MaxValue) /\ NoInvoke
            ELSE maxBound' = Bound(max, F(max)) /\ Invoke(max)
    /\ UNCHANGED <<inputs, minBound, nFunEvals, err, ret, minInf, maxInf,
                   finiteVars, anchorVars, goVars, searchVars>>

\* The call infSearch(f, s, d, nFunEvals, maxEvals): step := 1.0,
\* newStart := start, i := 0.
CallInfSearch(s, d) ==
    /\ pc' = "infSearch"
    /\ start' = s
    /\ newStart' = s
    /\ step' = W(1)
    /\ dir' = d
    /\ i' = 0

\* if maxInf { return infSearch(f, minBound, 1, ...) }
\* if minInf { return infSearch(f, maxBound, -1, ...) }
SearchFrom(mI, xI, mB, xB) ==
    IF xI THEN CallInfSearch(mB, 1) ELSE CallInfSearch(xB, 0 - 1)

\* if minInf && maxInf { ... } else straight on to the search.
InfAnchors ==
    /\ pc = "infAnchors"
    /\ IF minInf /\ maxInf
       THEN /\ IF Concurrent
               THEN /\ pc' = "anchWait"
                    /\ wg' = wg + 2
                    /\ gor' = [gor EXCEPT !["zero"] = "running",
                                          !["one"] = "running"]
               ELSE pc' = "anchZero" /\ UNCHANGED goVars
            /\ UNCHANGED searchVars
       ELSE /\ SearchFrom(minInf, maxInf, minBound, maxBound)
            /\ UNCHANGED goVars
    /\ NoInvoke
    /\ UNCHANGED <<inputs, minBound, maxBound, nFunEvals, err, ret, minInf,
                   maxInf, finiteVars, anchorVars>>

\* zero = f(0)
AnchorZero ==
    /\ pc = "anchZero"
    /\ pc' = "anchOne"
    /\ zero' = F(W(0))
    /\ Invoke(W(0))
    /\ UNCHANGED <<inputs, minBound, maxBound, nFunEvals, err, ret, minInf,
                   maxInf, finiteVars, one, goVars, searchVars>>

\* one = f(1)
AnchorOne ==
    /\ pc = "anchOne"
    /\ pc' = "anchWait"
    /\ one' = F(W(1))
    /\ Invoke(W(1))
    /\ UNCHANGED <<inputs, minBound, maxBound, nFunEvals, err, ret, minInf,
                   maxInf, finiteVars, zero, goVars, searchVars>>

\* wg.Wait(); nFunEvals += 2; the choice of the bracket or of the
\* direction of the search.
AnchorDecide ==
    /\ pc = "anchWait"
    /\ Concurrent => WgWait(wg)
    /\ nFunEvals' = nFunEvals + 2
    /\ LET signsOpposite == (Gt(zero, 0) /\ Lt(one, 0))
                            \/ (Lt(zero, 0) /\ Gt(one, 0))
           \* zero becomes the maximum, the minimum stays -inf
           zeroIsMax == IF Gt(zero, 0) /\ Gt(one, 0)
                        THEN Lt(zero, one) ELSE Gt(zero, one)
       IN  IF signsOpposite
           THEN /\ minBound' = Bound(W(0), zero)
                /\ maxBound' = Bound(W(1), one)
                /\ pc' = "FindCheck"
                /\ UNCHANGED <<minInf, maxInf, searchVars>>
           ELSE IF zeroIsMax
           THEN /\ maxBound' = Bound(W(0), zero)
                /\ maxInf' = FALSE
                /\ UNCHANGED <<minBound, minInf>>
                /\ SearchFrom(minInf, FALSE, minBound, Bound(W(0), zero))
           ELSE /\ minBound' = Bound(W(1), one)
                /\ minInf' = FALSE
                /\ UNCHANGED <<maxBound, maxInf>>
                /\ SearchFrom(FALSE, maxInf, Bound(W(1), one), maxBound)
    /\ NoInvoke
    /\ UNCHANGED <<inputs, err, ret, finiteVars, anchorVars, goVars>>

(***************************************************************************)
(* infSearch: one iteration of its loop, or its exit.                      *)
(***************************************************************************)
\* bound{loc: math.NaN()}
NaNBound == Bound(NaN, 0)

\* infSearch returns (a, b, nFunEvals, e), ordered by the direction.
SearchReturn(held, other, e) ==
    /\ pc' = "FindCheck"
    /\ err' = e
    /\ minBound' = IF dir = 1 THEN held ELSE other
    /\ maxBound' = IF dir = 1 THEN other ELSE held

infSearch ==
    /\ pc = "infSearch"
    /\ IF ~infSearchLoop(i) \/ (maxEvals > 0 /\ nFunEvals > maxEvals)
       THEN /\ SearchReturn(newStart, NaNBound, "ErrMaxEval")
            /\ NoInvoke
            /\ UNCHANGED <<nFunEvals, searchVars>>
       ELSE LET newLoc == start.loc + step * dir
                newValue == F(newLoc)
            IN  /\ Invoke(newLoc)
                /\ nFunEvals' = nFunEvals + 1
                /\ IF IsNaN(newValue)
                   THEN /\ SearchReturn(newStart, NaNBound, "ErrNaN")
                        /\ UNCHANGED searchVars
                   ELSE IF newValue = 0 \/ ~sameSign(newStart.value, newValue)
                   THEN /\ SearchReturn(newStart, Bound(newLoc, newValue),
                                        "nil")
                        /\ UNCHANGED searchVars
                   ELSE /\ newStart' = Bound(newLoc, newValue)
                        /\ step' = step * 2
                        /\ i' = i + 1
                        /\ UNCHANGED <<pc, err, minBound, maxBound, start, dir>>
    /\ UNCHANGED <<inputs, ret, minInf, maxInf, finiteVars, anchorVars, goVars>>

(***************************************************************************)
(* Find, after getBoundVals has returned.                                  *)
(***************************************************************************)
FindCheck ==
    /\ pc = "FindCheck"
    /\ IF err # "nil"
       THEN Return(minBoundValue(minBound, maxBound), err) /\ UNCHANGED i
       ELSE IF Lt(Abs(minBound.value), tol)
       THEN Return(minBound.loc, "nil") /\ UNCHANGED i
       ELSE IF Lt(Abs(maxBound.value), tol)
       THEN Return(maxBound.loc, "nil") /\ UNCHANGED i
       ELSE pc' = "bisection" /\ i' = 0 /\ UNCHANGED <<ret, err>>
    /\ NoInvoke
    /\ UNCHANGED <<inputs, minBound, maxBound, nFunEvals, minInf, maxInf,
                   finiteVars, anchorVars, goVars, start, newStart, step, dir>>

(***************************************************************************)
(* bisection: one iteration of its loop, or its exit.                      *)
(***************************************************************************)
bisection ==
    /\ pc = "bisection"
    /\ IF ~bisectionLoop(i)
       THEN /\ Return(minBoundValue(minBound, maxBound), "ErrMaxEval")
            /\ NoInvoke
            /\ UNCHANGED <<minBound, maxBound, nFunEvals, i>>
       ELSE LET mid == (minBound.loc + maxBound.loc) \div 2
                midValue == F(mid)
            IN  /\ Invoke(mid)
                /\ nFunEvals' = nFunEvals + 1
                /\ IF IsNaN(midValue)
                   THEN /\ Return(minBoundValue(minBound, maxBound), "ErrNaN")
                        /\ UNCHANGED <<minBound, maxBound, i>>
                   ELSE IF Lt(Abs(midValue), tol)
                   THEN /\ Return(mid, "nil")
                        /\ UNCHANGED <<minBound, maxBound, i>>
                   ELSE IF maxEvals > 0 /\ nFunEvals' > maxEvals
                   THEN /\ Return(minBoundValue(minBound, maxBound),
                                  "ErrMaxEval")
                        /\ UNCHANGED <<minBound, maxBound, i>>
                   ELSE /\ IF sameSign(minBound.value, midValue)
                           THEN /\ minBound' = Bound(mid, midValue)
                                /\ UNCHANGED maxBound
                           ELSE /\ maxBound' = Bound(mid, midValue)
                                /\ UNCHANGED minBound
                        /\ i' = i + 1
                        /\ UNCHANGED <<pc, ret, err>>
    /\ UNCHANGED <<inputs, minInf, maxInf, finiteVars, anchorVars, goVars,
                   start, newStart, step, dir>>

Next ==
    \/ getBoundVals
    \/ FiniteMin
    \/ FiniteMax
    \/ FiniteReturn
    \/ \E g \in Goroutines : GoEval(g)
    \/ InfMin
    \/ InfMax
    \/ InfAnchors
    \/ AnchorZero
    \/ AnchorOne
    \/ AnchorDecide
    \/ infSearch
    \/ FindCheck
    \/ bisection

Spec == Init /\ [][Next]_vars

(***************************************************************************)
(* Vocabulary of the properties.                                           *)
(***************************************************************************)
Finite(x) == x # NaN /\ x # PosInf /\ x # NegInf
OppositeSign(a, b) == (Gt(a, 0) /\ Lt(b, 0)) \/ (Lt(a, 0) /\ Gt(b, 0))
\* A bracket: ordered finite locations, values of strictly opposite sign.
Bracket(a, b) ==
    /\ Finite(a.loc) /\ Finite(b.loc)
    /\ a.loc < b.loc
    /\ OppositeSign(a.value, b.value)

BothFinite == Finite(min) /\ Finite(max) /\ min < max
BothInfinite == min = NegInf /\ max = PosInf
\* getBoundVals returns from its known-value checks, before any bound is
\* evaluated.
KnownShortCut ==
    \/ UseMin /\ (min = NegInf \/ Lt(Abs(settings.MaxValue), tol))
    \/ UseMax /\ (max = PosInf \/ Lt(Abs(settings.MaxValue), tol))
\* The positions after the bound stage has joined its goroutines.
Joined == pc \in {"FindCheck", "infSearch", "bisection", "done"}
Running == {g \in Goroutines : gor[g] = "running"}
Failed == pc = "done" /\ err \in {"ErrMaxEval", "ErrNaN"}

\* The bound old was replaced by the midpoint of old and kept, whose value
\* has old's sign.
Narrowed(old, new, kept) ==
    /\ 2 * new.loc = old.loc + kept.loc
    /\ new.value = F(new.loc)
    /\ sameSign(old.value, new.value)

(***************************************************************************)
(* C1: whenever Find returns a nil error, the x it returns has             *)
(* |f(x)| < tol (known values being the values of f, tol > 0).             *)
(***************************************************************************)
C1_SuccessMeetsTol ==
    (pc = "done" /\ err = "nil") => Lt(Abs(F(ret)), tol)

(***************************************************************************)
(* C2: for a strictly monotonic f with root r in the domain, of any shape, *)
(* Find with nil settings succeeds with a location within tol of r.        *)
(***************************************************************************)
C2_MonotonicRootFound ==
    (/\ pc = "done"
     /\ settings.isNil
     /\ fn.kind = "lin" /\ nanLoc = NoNaN
     /\ min <= fn.root /\ fn.root <= max)
    => (err = "nil" /\ Abs(ret - fn.root) <= tol)

(***************************************************************************)
(* C3: once f has returned NaN, f is not invoked again in the call and the *)
(* call returns ErrNaN.                                                    *)
(***************************************************************************)
C3_NaNStopsTheCall ==
    /\ nanSeen => callsAfterNaN = 0
    /\ (nanSeen /\ pc = "done") => err = "ErrNaN"

(***************************************************************************)
(* C4: a call with min >= max returns a failure status to the caller (it   *)
(* does not abort) and never invokes f.                                    *)
(***************************************************************************)
C4_InvalidDomainIsStatus ==
    (Ge(min, max) /\ pc # "Find")
    => (pc = "done" /\ err # "nil" /\ calls = 0)

(***************************************************************************)
(* C5: the number returned with ErrMaxEval or ErrNaN is the location of    *)
(* the bound, of the two held, with the smaller |value|.                   *)
(***************************************************************************)
C5_FailureReturnsBestLoc ==
    Failed =>
        LET held == {b \in {minBound, maxBound} : ~IsNaN(b.loc)}
            best == {b \in held :
                        \A c \in held : ~Gt(Abs(b.value), Abs(c.value))}
        IN  ret \in {b.loc : b \in best}

(***************************************************************************)
(* C6: a call with min < max invokes f at most 2 + 2*noRootIter times,     *)
(* neither loop runs more than noRootIter iterations, and the call is      *)
(* never stuck before it returns.                                          *)
(***************************************************************************)
C6_BoundedEvaluations ==
    /\ calls <= 2 + 2 * noRootIter
    /\ i <= noRootIter
    /\ (Lt(min, max) /\ pc # "done") => ENABLED Next

C6_Witness ==
    /\ pc = "done" /\ err = "ErrMaxEval"
    /\ maxEvals <= 0
    /\ calls = 2 + 2 * noRootIter

(***************************************************************************)
(* C7: at the call of bisection the two bounds have finite locations,      *)
(* minBound.loc < maxBound.loc and values of strictly opposite sign.       *)
(***************************************************************************)
C7_BracketAtBisection ==
    (pc = "bisection" /\ i = 0) => Bracket(minBound, maxBound)

(***************************************************************************)
(* C8: an iteration of bisection that starts from a bracket and replaces a *)
(* bound leaves a bracket inside the previous one: the bound whose value   *)
(* has the midpoint's sign, and only it, becomes the midpoint.             *)
(***************************************************************************)
C8_BisectionKeepsBracket ==
    [][(pc = "bisection" /\ pc' = "bisection" /\ Bracket(minBound, maxBound))
       => /\ Bracket(minBound', maxBound')
          /\ minBound.loc <= minBound'.loc
          /\ maxBound'.loc <= maxBound.loc
          /\ \/ maxBound' = maxBound /\ Narrowed(minBound, minBound', maxBound)
             \/ minBound' = minBound /\ Narrowed(maxBound, maxBound', minBound)
      ]_vars

\* Bisection started from the bracket (min, max) and has replaced both ends.
C8_Witness ==
    /\ pc = "bisection"
    /\ BothFinite /\ ~KnownShortCut
    /\ OppositeSign(F(min), F(max))
    /\ Bracket(minBound, maxBound)
    /\ minBound.loc # min /\ maxBound.loc # max

(***************************************************************************)
(* C9: at every checkpoint where the counter is compared with MaxEvals     *)
(* (the top of a doubling-search iteration, after a bisection midpoint)    *)
(* the counter equals the number of invocations of f so far.               *)
(***************************************************************************)
C9_CounterCountsInvocations ==
    (pc = "infSearch" \/ (pc = "bisection" /\ i > 0)) => nFunEvals = calls

(***************************************************************************)
(* C10: with Concurrent set, no result of the two goroutines is read       *)
(* before both have completed, at most two evaluations are outstanding,    *)
(* and the bounds, anchor values and count after the join are those of the *)
(* sequential execution.                                                   *)
(***************************************************************************)
C10_JoinBeforeUse ==
    Concurrent =>
        /\ Cardinality(Running) <= 2
        /\ Joined => Running = {}
        /\ (pc = "FindCheck" /\ BothFinite /\ ~KnownShortCut) =>
              /\ minBound = Bound(min, IF UseMin THEN settings.MinValue
                                       ELSE F(min))
              /\ maxBound = Bound(max, IF UseMax THEN settings.MaxValue
                                       ELSE F(max))
              /\ nFunEvals = (IF UseMin THEN 0 ELSE 1)
                             + (IF UseMax THEN 0 ELSE 1)
        /\ (Joined /\ BothInfinite /\ ~KnownShortCut) =>
              /\ zero = F(W(0))
              /\ one = F(W(1))
              /\ nFunEvals = calls

\* Both goroutines of getBoundsFinite have run and the bounds are in use.
C10_Witness ==
    /\ Concurrent
    /\ pc = "bisection"
    /\ BothFinite
    /\ gor["min"] = "done" /\ gor["max"] = "done"

=============================================================================
